---------------------------- MODULE Spec2Model ----------------------------
(***************************************************************************)
(* Document Q&A Bot: the RAG pipeline (backend/rag_pipeline.py) behind the *)
(* FastAPI handlers (backend/main.py).                                     *)
(*                                                                         *)
(* Texts are sequences of one-character strings.  The vector store is the  *)
(* sequence of its records in insertion order.  Each handler is one action *)
(* except DELETE /documents/{doc_id}: delete_document makes two store      *)
(* calls (get, then delete), and the calls of other requests may fall      *)
(* between them (several workers sharing one persistent store).            *)
(*                                                                         *)
(* chunk_size and chunk_overlap stand for CHUNK_SIZE = 500 and             *)
(* CHUNK_OVERLAP = 50; they are run at small values, overlap < size.       *)
(* uuid.uuid4() is taken to return an identifier it has not returned       *)
(* before, and a client to send only a doc_id an upload has produced, or a *)
(* string that is no upload's doc_id.  The Chroma collection is modelled   *)
(* by what the code relies on: add appends the batch and rejects repeated  *)
(* ids, get and delete select by metadata or id, query returns at most     *)
(* n_results records by cosine distance.  Failures of the infrastructure   *)
(* (disk, store, embedding model, generation service) are not modelled:    *)
(* every external call answers.                                            *)
(***************************************************************************)
EXTENDS Integers, Sequences, FiniteSets, TLC

(***************************************************************************)
(* Bounds of the model.                                                    *)
(***************************************************************************)
\* longest text handed to chunk_text in ChunkSpec
MaxLen == 4
\* largest chunk size of ChunkSpec (every overlap below the size is tried)
MaxChunkSize == 3
\* chunk size and overlap of the running service in Spec
SysChunkSize == 2
SysChunkOverlap == 1
\* number of identifiers uuid4 can still hand out
NumUuids == 2
\* DELETE requests that may be between their get and their delete
MaxInflight == 1

(***************************************************************************)
(* Program constants (config.py).                                          *)
(***************************************************************************)
TOP_K == 3
ALLOWED_EXTENSIONS == {".pdf", ".docx", ".txt", ".pptx", ".ppt"}

VARIABLES
    chunk_size,     \* config.CHUNK_SIZE, fixed at startup
    chunk_overlap,  \* config.CHUNK_OVERLAP, fixed at startup
    store,          \* the Chroma collection "documents": records in insertion order
    uploads,        \* files of UPLOAD_DIR, as <<stem, suffix>>
    issued,         \* identifiers uuid4 has returned
    deleting,       \* delete_document calls between collection.get and collection.delete
    last,           \* the last completed request and its response
    returned,       \* doc_id -> total_chunks of its successful upload, until deleted
    deleted,        \* doc_ids for which a delete_document call has completed
    c_text,         \* ChunkSpec: the argument of chunk_text
    c_pc,           \* ChunkSpec: "call" before chunk_text ran, "done" after
    c_chunks,       \* ChunkSpec: the list chunk_text returned
    c_trace         \* ChunkSpec: the chunks emitted, each with the loop's start offset

vars == <<chunk_size, chunk_overlap, store, uploads, issued, deleting, last,
          returned, deleted, c_text, c_pc, c_chunks, c_trace>>

sysvars == <<store, uploads, issued, deleting, last, returned, deleted>>
chunkvars == <<c_text, c_pc, c_chunks, c_trace>>
config == <<chunk_size, chunk_overlap>>

(***************************************************************************)
(* Text.                                                                   *)
(***************************************************************************)
Whitespace == {" "}
Chars == {"a", "b", " "}

TextsUpTo(n) == UNION {[1..k -> Chars] : k \in 0..n}

Min(a, b) == IF a < b THEN a ELSE b

\* text[start:end] of Python, for 0 <= start <= end
Slice(text, start, end) == SubSeq(text, start + 1, Min(end, Len(text)))

RECURSIVE LStrip(_)
LStrip(s) ==
    IF s # <<>> /\ Head(s) \in Whitespace THEN LStrip(Tail(s)) ELSE s

RECURSIVE RStrip(_)
RStrip(s) ==
    IF s # <<>> /\ s[Len(s)] \in Whitespace
    THEN RStrip(SubSeq(s, 1, Len(s) - 1))
    ELSE s

\* a strip that removes nothing (the check `not text` in place of `not text.strip()`)
StripNothing(s) == s

\* str.strip()
Strip(s) == LStrip(RStrip(s))

(***************************************************************************)
(* chunk_text.  ChunkLoop is the while loop: it returns the emitted chunks *)
(* in order, each with the value of `start` at which it was sliced.        *)
(***************************************************************************)
RECURSIVE ChunkLoopShort(_, _, _)
\* a loop that stops once the rest of the text lies inside the last overlap
ChunkLoopShort(text, start, chunks) ==
    IF ~(start + chunk_overlap < Len(text)) THEN chunks
    ELSE LET end == start + chunk_size
             chunk == Slice(text, start, end)
         IN  ChunkLoopShort(text, start + chunk_size - chunk_overlap,
                 IF Strip(chunk) # <<>>
                 THEN Append(chunks, [start |-> start, chunk |-> Strip(chunk)])
                 ELSE chunks)

RECURSIVE ChunkLoopRestart(_, _, _)
\* a loop that slices the next chunk right after the last one it kept
ChunkLoopRestart(text, start, chunks) ==
    IF ~(start < Len(text)) THEN chunks
    ELSE LET end == start + chunk_size
             chunk == Slice(text, start, end)
         IN  IF Strip(chunk) # <<>>
             THEN ChunkLoopRestart(text, start + chunk_size - chunk_overlap,
                      Append(chunks, [start |-> start, chunk |-> Strip(chunk)]))
             ELSE ChunkLoopRestart(text, start + 1, chunks)

RECURSIVE ChunkLoop(_, _, _)
ChunkLoop(text, start, chunks) ==
    IF ~(start < Len(text)) THEN chunks
    ELSE LET end == start + chunk_size
             chunk == Slice(text, start, end)
         IN  ChunkLoop(text, start + chunk_size - chunk_overlap,
                 IF Strip(chunk) # <<>>
                 THEN Append(chunks, [start |-> start, chunk |-> Strip(chunk)])
                 ELSE chunks)

ChunkTrace(text) ==
    IF Strip(text) = <<>> THEN <<>> ELSE ChunkLoop(text, 0, <<>>)

chunk_text(text) ==
    LET trace == ChunkTrace(text)
    IN  [i \in 1..Len(trace) |-> trace[i].chunk]

(***************************************************************************)
(* ChunkSpec: chunk_text applied to every text up to MaxLen, under every   *)
(* chunk size up to MaxChunkSize and every overlap below it.               *)
(***************************************************************************)
SysIdle ==
    /\ store = <<>>
    /\ uploads = {}
    /\ issued = {}
    /\ deleting = {}
    /\ last = [op |-> "none"]
    /\ returned = {}
    /\ deleted = {}

ChunkInit ==
    /\ chunk_size \in 1..MaxChunkSize
    /\ chunk_overlap \in 0..(chunk_size - 1)
    /\ c_text \in TextsUpTo(MaxLen)
    /\ c_pc = "call"
    /\ c_chunks = <<>>
    /\ c_trace = <<>>
    /\ SysIdle

ChunkCall ==
    /\ c_pc = "call"
    /\ c_chunks' = chunk_text(c_text)
    /\ c_trace' = ChunkTrace(c_text)
    /\ c_pc' = "done"
    /\ UNCHANGED <<c_text, config, sysvars>>

ChunkNext == ChunkCall

ChunkSpec == ChunkInit /\ [][ChunkNext]_vars

(***************************************************************************)
(* Identifiers, file names, optional arguments.                            *)
(***************************************************************************)
\* the values uuid.uuid4() can return
Uuids == {"d" \o ToString(i) : i \in 1..NumUuids}
\* a doc_id a client sends that no upload ever returned
JunkId == "nope"

\* Python's None and a present value of an optional argument
None == <<>>
Some(x) == <<x>>

FileNames == {"Report.PDF", "setup.exe"}

\* Path(name).suffix
PathSuffix(name) ==
    CASE name = "Report.PDF" -> ".PDF"
      [] name = "setup.exe" -> ".exe"

\* str.lower() on a suffix
Lower(s) ==
    CASE s = ".PDF" -> ".pdf"
      [] OTHER -> s

\* path.lower().rsplit(".", 1)[-1] of the path <<stem, suffix>>
PathExt(path) ==
    LET suffix == Lower(path[2])
    IN  CASE suffix = ".pdf" -> "pdf"
          [] suffix = ".docx" -> "docx"
          [] suffix = ".txt" -> "txt"
          [] suffix = ".pptx" -> "pptx"
          [] suffix = ".ppt" -> "ppt"
          [] suffix = ".exe" -> "exe"

\* the keys of the extractors table of extract_text
Extractors == {"pdf", "docx", "txt", "pptx", "ppt"}

\* the texts extracted from uploaded files in Spec: an empty one, a
\* whitespace-only one, one of a single chunk, one of several chunks
DocTexts == {<<>>, <<" ">>, <<"a">>, <<"a", "b">>}

\* what an uploaded file holds: whether its extractor can read it, and the
\* text the extractor returns
FileContents ==
    {[parse_ok |-> FALSE, text |-> <<>>]}
        \cup {[parse_ok |-> TRUE, text |-> t] : t \in DocTexts}

\* extract_text: raised is "none", "ValueError" (unsupported format) or
\* "Exception" (the extractor could not read the file)
extract_text(file_path, content) ==
    IF PathExt(file_path) \notin Extractors
    THEN [raised |-> "ValueError", text |-> <<>>]
    ELSE IF ~content.parse_ok
    THEN [raised |-> "Exception", text |-> <<>>]
    ELSE [raised |-> "none", text |-> content.text]

(***************************************************************************)
(* The embedding model and the vector store.                               *)
(***************************************************************************)
RECURSIVE Count(_, _)
Count(s, c) ==
    IF s = <<>> THEN 0
    ELSE (IF Head(s) = c THEN 1 ELSE 0) + Count(Tail(s), c)

\* embedding_model.encode of one text: a deterministic fixed-length vector
Encode(text) == <<Count(text, "a"), Count(text, "b")>>

Dot(u, v) == u[1] * v[1] + u[2] * v[2]

\* cosine distance ("hnsw:space": "cosine"): x is strictly nearer to q than y
Closer(q, x, y) ==
    Dot(q, x) * Dot(q, x) * Dot(y, y) > Dot(q, y) * Dot(q, y) * Dot(x, x)

Range(seq) == {seq[i] : i \in DOMAIN seq}

Ids(records) == [i \in DOMAIN records |-> records[i].id]

\* collection.add: rejects a batch with a repeated id or an id already stored
CollectionAdd(st, records) ==
    IF \/ \E i, j \in DOMAIN records : i # j /\ records[i].id = records[j].id
       \/ \E i \in DOMAIN records : records[i].id \in Range(Ids(st))
    THEN [raised |-> TRUE, store |-> st]
    ELSE [raised |-> FALSE, store |-> st \o records]

\* the records a where-filter selects (None: all of them)
Matching(st, where) ==
    {i \in DOMAIN st : where = None \/ st[i].metadata.doc_id = where[1].doc_id}

\* collection.get: the selected records in insertion order
CollectionGet(st, where) ==
    SelectSeq(st, LAMBDA r : where = None \/ r.metadata.doc_id = where[1].doc_id)

\* collection.delete(ids=...)
CollectionDelete(st, ids) ==
    SelectSeq(st, LAMBDA r : r.id \notin Range(ids))

RECURSIVE Nearest(_, _, _, _)
\* the n nearest of the candidate records, nearest first, ties in insertion order
Nearest(st, cand, q, n) ==
    IF n = 0 \/ cand = {} THEN <<>>
    ELSE LET best == CHOOSE i \in cand : \A j \in cand \ {i} :
                         \/ Closer(q, st[i].embedding, st[j].embedding)
                         \/ /\ ~Closer(q, st[j].embedding, st[i].embedding)
                            /\ i < j
         IN  <<st[best]>> \o Nearest(st, cand \ {best}, q, n - 1)

\* collection.query for one query embedding: one result list per query
CollectionQuery(st, query_embeddings, n_results, where) ==
    LET hits == Nearest(st, Matching(st, where), query_embeddings[1], n_results)
    IN  [ids |-> <<Ids(hits)>>,
         documents |-> <<[i \in DOMAIN hits |-> hits[i].document]>>,
         metadatas |-> <<[i \in DOMAIN hits |-> hits[i].metadata]>>]

(***************************************************************************)
(* process_document.                                                       *)
(***************************************************************************)
MakeId(doc_id, i) == doc_id \o "_chunk_" \o ToString(i)

\* records numbered from 1 instead of 0
BuildRecordsFromOne(chunks, doc_id, filename) ==
    [k \in 1..Len(chunks) |->
        [id |-> MakeId(doc_id, k),
         embedding |-> Encode(chunks[k]),
         document |-> chunks[k],
         metadata |-> [doc_id |-> doc_id, filename |-> filename, chunk_index |-> k]]]

\* the ids, embeddings, documents and metadatas handed to collection.add:
\* position k of the sequence is index i = k - 1 of the Python lists
BuildRecords(chunks, doc_id, filename) ==
    [k \in 1..Len(chunks) |->
        [id |-> MakeId(doc_id, k - 1),
         embedding |-> Encode(chunks[k]),
         document |-> chunks[k],
         metadata |-> [doc_id |-> doc_id, filename |-> filename,
                       chunk_index |-> k - 1]]]

NoResult == [doc_id |-> "", filename |-> "", total_chunks |-> 0, text_length |-> 0]

\* process_document on the store st: what it raised, the store it leaves,
\* the dict it returns, and the text it extracted (None if extraction raised)
process_document(st, file_path, content, doc_id, filename) ==
    LET ex == extract_text(file_path, content)
        chunks == chunk_text(ex.text)
        added == CollectionAdd(st, BuildRecords(chunks, doc_id, filename))
        failed(kind, extracted) ==
            [raised |-> kind, store |-> st, result |-> NoResult,
             extracted |-> extracted]
    IN  IF ex.raised # "none" THEN failed(ex.raised, None)
        ELSE IF Strip(ex.text) = <<>> THEN failed("ValueError", Some(ex.text))
        ELSE IF chunks = <<>> THEN failed("ValueError", Some(ex.text))
        ELSE IF added.raised THEN failed("Exception", Some(ex.text))
        ELSE [raised |-> "none",
              store |-> added.store,
              result |-> [doc_id |-> doc_id, filename |-> filename,
                          total_chunks |-> Len(chunks),
                          text_length |-> Len(ex.text)],
              extracted |-> Some(ex.text)]

(***************************************************************************)
(* retrieve_context, ask_question.                                         *)
(***************************************************************************)
\* no filter, whatever doc_id is given
WhereFilterNone(doc_id) == None

\* where_filter = {"doc_id": doc_id} if doc_id else None
WhereFilter(doc_id) ==
    IF doc_id # None /\ doc_id[1] # "" THEN Some([doc_id |-> doc_id[1]]) ELSE None

QueryResults(st, query, doc_id) ==
    CollectionQuery(st, <<Encode(query)>>, TOP_K, WhereFilter(doc_id))

retrieve_context(st, query, doc_id) ==
    LET results == QueryResults(st, query, doc_id)
    IN  IF results.documents # <<>> THEN results.documents[1] ELSE <<>>

FallbackAnswer == "Bu soru icin dokumanlarinizda ilgili bir bilgi bulamadim."
\* response.text of the generation service
GeneratedAnswer == "response.text"

\* an ask_question that sends the prompt even when no chunk was retrieved
ask_question_always(st, query, doc_id) ==
    [answer |-> GeneratedAnswer,
     context_used |-> retrieve_context(st, query, doc_id),
     generated |-> TRUE]

\* ask_question: generated tells whether generate_content was called
ask_question(st, query, doc_id) ==
    LET context_chunks == retrieve_context(st, query, doc_id)
    IN  IF context_chunks = <<>>
        THEN [answer |-> FallbackAnswer, context_used |-> <<>>, generated |-> FALSE]
        ELSE [answer |-> GeneratedAnswer, context_used |-> context_chunks,
              generated |-> TRUE]

(***************************************************************************)
(* delete_document, get_all_documents.                                     *)
(***************************************************************************)
\* a get without the where filter
DeleteDocumentGetAll(st, doc_id) == Ids(CollectionGet(st, None))

\* results = collection.get(where={"doc_id": doc_id}); results["ids"]
DeleteDocumentGet(st, doc_id) ==
    Ids(CollectionGet(st, Some([doc_id |-> doc_id])))

\* a delete of the first id found only
DeleteDocumentFinishFirst(st, ids) ==
    [store |-> IF ids # <<>> THEN CollectionDelete(st, <<ids[1]>>) ELSE st,
     ret |-> TRUE]

\* if results and results["ids"]: collection.delete(ids=...); return True
DeleteDocumentFinish(st, ids) ==
    [store |-> IF ids # <<>> THEN CollectionDelete(st, ids) ELSE st,
     ret |-> TRUE]

RECURSIVE GroupLoopFromOne(_, _)
\* a count that is not incremented for the record that creates the entry
GroupLoopFromOne(metas, docs) ==
    IF metas = <<>> THEN docs
    ELSE LET meta == Head(metas)
             did == meta.doc_id
         IN  IF \E k \in DOMAIN docs : docs[k].doc_id = did
             THEN GroupLoopFromOne(Tail(metas),
                      [k \in DOMAIN docs |->
                          IF docs[k].doc_id = did
                          THEN [docs[k] EXCEPT !.chunk_count = @ + 1]
                          ELSE docs[k]])
             ELSE GroupLoopFromOne(Tail(metas),
                      Append(docs, [doc_id |-> did, filename |-> meta.filename,
                                    chunk_count |-> 0]))

RECURSIVE GroupLoop(_, _)
\* the for loop of get_all_documents: docs is the dict, in insertion order
GroupLoop(metas, docs) ==
    IF metas = <<>> THEN docs
    ELSE LET meta == Head(metas)
             did == meta.doc_id
             entered == IF \E k \in DOMAIN docs : docs[k].doc_id = did
                        THEN docs
                        ELSE Append(docs, [doc_id |-> did,
                                           filename |-> meta.filename,
                                           chunk_count |-> 0])
         IN  GroupLoop(Tail(metas),
                 [k \in DOMAIN entered |->
                     IF entered[k].doc_id = did
                     THEN [entered[k] EXCEPT !.chunk_count = @ + 1]
                     ELSE entered[k]])

get_all_documents(st) ==
    LET all_data == CollectionGet(st, None)
        metadatas == [i \in DOMAIN all_data |-> all_data[i].metadata]
    IN  IF metadatas = <<>> THEN <<>> ELSE GroupLoop(metadatas, <<>>)

(***************************************************************************)
(* The handlers of main.py.                                                *)
(***************************************************************************)
StoredDocIds(st) == {st[i].metadata.doc_id : i \in DOMAIN st}

Init ==
    /\ chunk_size = SysChunkSize
    /\ chunk_overlap = SysChunkOverlap
    /\ c_text = <<>>
    /\ c_pc = "idle"
    /\ c_chunks = <<>>
    /\ c_trace = <<>>
    /\ SysIdle

\* POST /upload.  uuid4 returns an identifier it has not returned before.
UploadDocument ==
    /\ \E name \in FileNames, content \in FileContents :
           LET ext == Lower(PathSuffix(name))
           IN  IF ext \notin ALLOWED_EXTENSIONS
               THEN /\ last' = [op |-> "upload", filename |-> name, status |-> 400,
                                extracted |-> None, doc_id |-> "", total_chunks |-> 0]
                    /\ UNCHANGED <<store, uploads, issued, returned>>
               ELSE \E doc_id \in Uuids \ issued :
                      LET file_path == <<doc_id, ext>>
                          p == process_document(store, file_path, content, doc_id, name)
                          status == CASE p.raised = "none" -> 200
                                      [] p.raised = "ValueError" -> 400
                                      [] OTHER -> 500
                      IN  /\ issued' = issued \cup {doc_id}
                          /\ store' = p.store
                          \* saved before processing, unlinked again if it raised
                          /\ uploads' = IF p.raised = "none"
                                        THEN uploads \cup {file_path}
                                        ELSE uploads \ {file_path}
                          /\ returned' =
                               IF p.raised = "none"
                               THEN returned \cup {[doc_id |-> doc_id,
                                        total_chunks |-> p.result.total_chunks]}
                               ELSE returned
                          /\ last' = [op |-> "upload", filename |-> name,
                                      status |-> status, extracted |-> p.extracted,
                                      doc_id |-> p.result.doc_id,
                                      total_chunks |-> p.result.total_chunks]
    \* a delete_document call between its get and its delete notes that the
    \* store has received records since its get
    /\ deleting' = IF store' # store
                   THEN {[req EXCEPT !.overlapped = TRUE] : req \in deleting}
                   ELSE deleting
    /\ UNCHANGED <<deleted, config, chunkvars>>

\* the doc_id values a client can send: one an upload was given, or another string
ClientDocIds == issued \cup {JunkId}

Queries == {<<" ">>, <<"a">>}

\* POST /ask
Ask ==
    /\ \E question \in Queries,
          doc_id \in {None, Some("")} \cup {Some(d) : d \in ClientDocIds} :
        IF Strip(question) = <<>>
        THEN last' = [op |-> "ask", question |-> question, doc_id |-> doc_id,
                      status |-> 400]
        ELSE LET result == ask_question(store, question, doc_id)
             IN  last' = [op |-> "ask", question |-> question, doc_id |-> doc_id,
                          status |-> 200, answer |-> result.answer,
                          context_used |-> result.context_used,
                          generated |-> result.generated]
    /\ UNCHANGED <<store, uploads, issued, deleting, returned, deleted, config,
                   chunkvars>>

\* GET /documents
ListDocuments ==
    /\ last' = [op |-> "list", status |-> 200,
                documents |-> get_all_documents(store)]
    /\ UNCHANGED <<store, uploads, issued, deleting, returned, deleted, config,
                   chunkvars>>

\* DELETE /documents/{doc_id}, up to the answer of collection.get
\* (overlapped: whether an upload has added records since that answer)
RemoveDocumentGet(doc_id) ==
    /\ Cardinality(deleting) < MaxInflight
    /\ deleting' = deleting \cup
          {[doc_id |-> doc_id, ids |-> DeleteDocumentGet(store, doc_id),
            overlapped |-> FALSE]}
    /\ UNCHANGED <<store, uploads, issued, last, returned, deleted, config,
                   chunkvars>>

\* DELETE /documents/{doc_id}, from collection.delete to the response
RemoveDocumentFinish(req) ==
    LET d == DeleteDocumentFinish(store, req.ids)
        files == {f \in uploads : f[1] = req.doc_id}
    IN  /\ deleting' = deleting \ {req}
        /\ store' = d.store
        /\ IF d.ret /\ files # {}
           THEN \E f \in files : uploads' = uploads \ {f}
           ELSE uploads' = uploads
        /\ last' = [op |-> "delete", doc_id |-> req.doc_id,
                    matched |-> Len(req.ids), success |-> d.ret,
                    status |-> IF d.ret THEN 200 ELSE 404,
                    overlapped |-> req.overlapped]
        /\ deleted' = deleted \cup {req.doc_id}
        /\ returned' = IF req.ids # <<>>
                       THEN {r \in returned : r.doc_id # req.doc_id}
                       ELSE returned
        /\ UNCHANGED <<issued, config, chunkvars>>

Next ==
    \/ UploadDocument
    \/ Ask
    \/ ListDocuments
    \/ \E doc_id \in ClientDocIds : RemoveDocumentGet(doc_id)
    \/ \E req \in deleting : RemoveDocumentFinish(req)

Spec == Init /\ [][Next]_vars

(***************************************************************************)
(* Vocabulary of the chunking claims, stated without Strip or ChunkLoop.   *)
(***************************************************************************)
Max(a, b) == IF a > b THEN a ELSE b

\* ceil(n / d) for n >= 0 and d > 0
CeilDiv(n, d) == (n + d - 1) \div d

Stride == chunk_size - chunk_overlap

WhitespaceOnly(s) == \A i \in 1..Len(s) : s[i] \in Whitespace

\* the offsets at which the loop slices a text of length n
SliceStarts(n) == {k * Stride : k \in {j \in 0..n : j * Stride < n}}

NoBlankSlice(text) ==
    \A st \in SliceStarts(Len(text)) :
        ~WhitespaceOnly(Slice(text, st, st + chunk_size))

\* t is s without its leading and trailing whitespace
IsTrimOf(t, s) ==
    \E i \in 1..(Len(s) + 1), j \in 0..Len(s) :
        /\ t = SubSeq(s, i, j)
        /\ \A k \in 1..(i - 1) : s[k] \in Whitespace
        /\ \A k \in (j + 1)..Len(s) : s[k] \in Whitespace
        /\ t # <<>> => (t[1] \notin Whitespace /\ t[Len(t)] \notin Whitespace)

\* whitespace-only slices the loop passed between two offsets
BlankSlicesBetween(text, lo, hi) ==
    Cardinality({st \in SliceStarts(Len(text)) :
        /\ lo < st
        /\ st < hi
        /\ WhitespaceOnly(Slice(text, st, st + chunk_size))})

ChunkDone == c_pc = "done"

\* C6 as stated: a text of length L without whitespace-only slices gives
\* exactly ceil(max(L - O, 0) / (S - O)) chunks.
C6_CountAsClaimed ==
    (ChunkDone /\ NoBlankSlice(c_text)) =>
        Len(c_chunks) = CeilDiv(Max(Len(c_text) - chunk_overlap, 0), Stride)

\* C6 amended: a text of length L without whitespace-only slices gives
\* exactly ceil(L / (S - O)) chunks: the loop runs while start < L, so the
\* tail that lies inside the last overlap is sliced once more.
C6_ChunkCount ==
    (ChunkDone /\ NoBlankSlice(c_text)) =>
        Len(c_chunks) = CeilDiv(Len(c_text), Stride)

\* chunk_text ran on a text whose last slice lies inside the previous overlap
C6_Witness ==
    /\ ChunkDone
    /\ NoBlankSlice(c_text)
    /\ Len(c_chunks) >= 2
    /\ Len(c_chunks) # CeilDiv(Max(Len(c_text) - chunk_overlap, 0), Stride)

\* C8 as stated: consecutive emitted chunks start exactly S - O apart, each
\* emitted chunk is the trimmed slice [start, start + S), and only the slice
\* of the final chunk is shorter than S.
C8_StrideAsClaimed ==
    ChunkDone =>
        /\ \A i \in 1..(Len(c_trace) - 1) :
              /\ c_trace[i + 1].start - c_trace[i].start = Stride
              /\ Len(Slice(c_text, c_trace[i].start, c_trace[i].start + chunk_size))
                    = chunk_size
        /\ \A i \in 1..Len(c_trace) :
              IsTrimOf(c_trace[i].chunk,
                       Slice(c_text, c_trace[i].start, c_trace[i].start + chunk_size))

\* C8 amended: every emitted chunk is the non-empty trimmed slice
\* [start, start + S) taken at a multiple of S - O; consecutive emitted chunks
\* start (S - O) * (1 + k) apart, k the number of whitespace-only slices
\* skipped between them; a slice is shorter than S exactly when it runs past
\* the end of the text.
C8_ChunkStride ==
    ChunkDone =>
        /\ c_chunks = [i \in 1..Len(c_trace) |-> c_trace[i].chunk]
        /\ \A i \in 1..(Len(c_trace) - 1) :
              c_trace[i + 1].start - c_trace[i].start
                = Stride * (1 + BlankSlicesBetween(c_text, c_trace[i].start,
                                                   c_trace[i + 1].start))
        /\ \A i \in 1..Len(c_trace) :
              LET st == c_trace[i].start
                  slice == Slice(c_text, st, st + chunk_size)
              IN  /\ st \in SliceStarts(Len(c_text))
                  /\ c_trace[i].chunk # <<>>
                  /\ IsTrimOf(c_trace[i].chunk, slice)
                  /\ (Len(slice) < chunk_size) <=> (st + chunk_size > Len(c_text))

\* chunk_text skipped a whitespace-only slice between two emitted chunks
C8_Witness ==
    /\ ChunkDone
    /\ \E i \in 1..(Len(c_trace) - 1) :
          c_trace[i + 1].start - c_trace[i].start > Stride

(***************************************************************************)
(* Vocabulary of the service claims.                                       *)
(***************************************************************************)
\* the records of the store whose metadata doc_id is d
RecordsOf(d) == {i \in DOMAIN store : store[i].metadata.doc_id = d}

\* the questions POST /ask accepts
ValidQueries == {q \in Queries : ~WhitespaceOnly(q)}

AskDocIds == {None, Some("")} \cup {Some(d) : d \in Uuids \cup {JunkId}}

\* the store holds no record that the optional doc_id filter lets through
\* (no doc_id, or an empty one, is no filter)
NothingToRetrieve(doc_id) ==
    IF doc_id = None \/ doc_id = Some("")
    THEN store = <<>>
    ELSE RecordsOf(doc_id[1]) = {}

\* C1 as stated: delete_document returns whether the document was found:
\* false (HTTP 404) when the get matched no record, true only when it
\* matched at least one.
C1_ReturnsWhetherFound ==
    last.op = "delete" =>
        /\ last.success <=> (last.matched > 0)
        /\ (last.status = 404) <=> (last.matched = 0)

\* C2: once delete_document(d) has completed, get_all_documents() has no
\* entry for d and retrieve_context(q, d) is empty for every query q.
C2_GoneAfterDelete ==
    \A d \in deleted :
        /\ \A k \in DOMAIN get_all_documents(store) :
              get_all_documents(store)[k].doc_id # d
        /\ \A q \in ValidQueries : retrieve_context(store, q, Some(d)) = <<>>

\* a delete_document call that found records has completed
C2_Witness ==
    /\ last.op = "delete"
    /\ last.matched > 0
    /\ last.doc_id \in deleted
    /\ store # <<>>

\* the upload handler refuses the extension of this file name
Unsupported(filename) == Lower(PathSuffix(filename)) \notin ALLOWED_EXTENSIONS

\* C3: an upload whose extension is unsupported, whose extracted text is
\* empty or whitespace-only, or that fails for any other reason, answers with
\* an error and leaves the records of the store exactly as they were; and
\* process_document itself, given the path of a file with an unsupported
\* extension, raises and returns the store as it was.
C3_FailedUploadWritesNothing ==
    [][(/\ last'.op = "upload"
        /\ \/ last'.status # 200
           \/ Unsupported(last'.filename)
           \/ last'.extracted # None /\ WhitespaceOnly(last'.extracted[1]))
       => /\ store' = store
          /\ last'.status # 200
          /\ Unsupported(last'.filename) =>
                \A content \in FileContents, d \in Uuids :
                    LET path == <<d, Lower(PathSuffix(last'.filename))>>
                        p == process_document(store, path, content, d,
                                              last'.filename)
                    IN  p.raised = "ValueError" /\ p.store = store]_vars

\* an upload of a whitespace-only text was refused while the store held records
C3_Witness ==
    /\ last.op = "upload"
    /\ last.status = 400
    /\ last.extracted # None
    /\ last.extracted # Some(<<>>)
    /\ WhitespaceOnly(last.extracted[1])
    /\ store # <<>>

\* C4: while a document whose upload returned total_chunks = n has not been
\* deleted, get_all_documents() has exactly one entry for it, with
\* chunk_count = n.
C4_ListingRoundTrip ==
    \A r \in returned :
        LET docs == get_all_documents(store)
            mine == {k \in DOMAIN docs : docs[k].doc_id = r.doc_id}
        IN  /\ Cardinality(mine) = 1
            /\ \A k \in mine : docs[k].chunk_count = r.total_chunks

\* a document of several chunks is listed next to another document
C4_Witness ==
    /\ last.op = "list"
    /\ Len(last.documents) = 2
    /\ \E r \in returned : r.total_chunks >= 2
    /\ last.documents = get_all_documents(store)

\* C5: with documents A and B stored, retrieve_context(query, A) returns only
\* texts of records whose metadata doc_id is A, never a record of B.
C5_RetrievalIsolation ==
    \A A \in StoredDocIds(store), q \in ValidQueries :
        LET results == QueryResults(store, q, Some(A))
            texts == retrieve_context(store, q, Some(A))
        IN  /\ Len(results.ids[1]) = Len(texts)
            /\ \A k \in DOMAIN texts :
                  \E i \in RecordsOf(A) :
                      /\ store[i].id = results.ids[1][k]
                      /\ store[i].document = texts[k]
                      /\ results.metadatas[1][k].doc_id = A

\* a question restricted to one of two stored documents was answered from it
C5_Witness ==
    /\ last.op = "ask"
    /\ last.status = 200
    /\ last.context_used # <<>>
    /\ last.doc_id # None
    /\ last.doc_id[1] \in StoredDocIds(store)
    /\ \E B \in StoredDocIds(store) : B # last.doc_id[1]
    /\ last.context_used = retrieve_context(store, last.question, last.doc_id)

\* C7: when the store holds no record matching the optional doc_id filter,
\* retrieve_context returns the empty list and ask_question returns the
\* fallback message with context_used = [] without calling the generation
\* service.
C7_ZeroResultsFallback ==
    \A q \in ValidQueries, doc_id \in AskDocIds :
        NothingToRetrieve(doc_id) =>
            /\ retrieve_context(store, q, doc_id) = <<>>
            /\ ask_question(store, q, doc_id) =
                  [answer |-> FallbackAnswer, context_used |-> <<>>,
                   generated |-> FALSE]

\* a question asked of a document that is not in a non-empty store got the fallback
C7_Witness ==
    /\ last.op = "ask"
    /\ last.status = 200
    /\ last.doc_id \notin {None, Some("")}
    /\ store # <<>>
    /\ NothingToRetrieve(last.doc_id)
    /\ last.answer = FallbackAnswer
    /\ last.context_used = <<>>
    /\ ~last.generated

\* C9: no two records share an id; each record's id is doc_id + "_chunk_" +
\* chunk_index with metadata {doc_id, filename, chunk_index}; the chunk_index
\* values of one doc_id are exactly 0..n-1, without gaps or repeats.
C9_IdentifierUniqueness ==
    /\ \A i, j \in DOMAIN store : store[i].id = store[j].id => i = j
    /\ \A i \in DOMAIN store :
          /\ DOMAIN store[i].metadata = {"doc_id", "filename", "chunk_index"}
          /\ store[i].id = store[i].metadata.doc_id \o "_chunk_"
                               \o ToString(store[i].metadata.chunk_index)
    /\ \A d \in StoredDocIds(store) :
          /\ {store[i].metadata.chunk_index : i \in RecordsOf(d)}
                = 0..(Cardinality(RecordsOf(d)) - 1)
          /\ \A i, j \in RecordsOf(d) :
                store[i].metadata.chunk_index = store[j].metadata.chunk_index
                    => i = j

\* two documents of several chunks each are stored
C9_Witness ==
    /\ Cardinality(StoredDocIds(store)) = 2
    /\ \A d \in StoredDocIds(store) : Cardinality(RecordsOf(d)) >= 2

\* C10: a step removes a record only if it completes delete_document for that
\* record's own doc_id; every other record, also one added between the get and
\* the delete, stays in the store with the same id, text, metadata and vector,
\* in the same order.
C10_DeleteFrame ==
    [][LET kept == SelectSeq(store, LAMBDA r : r \in Range(store'))
           removed == {store[i] : i \in DOMAIN store} \ Range(store')
       IN  /\ \A r \in removed :
                 /\ last'.op = "delete"
                 /\ last'.doc_id = r.metadata.doc_id
                 /\ \E req \in deleting \ deleting' : req.doc_id = r.metadata.doc_id
           /\ SubSeq(store', 1, Len(kept)) = kept]_vars

\* delete_document removed a document while, between its get and its delete,
\* another document was added, and that one is still stored
C10_Witness ==
    /\ last.op = "delete"
    /\ last.matched > 0
    /\ RecordsOf(last.doc_id) = {}
    /\ last.overlapped
    /\ \E B \in StoredDocIds(store) : B # last.doc_id

=============================================================================
